---- MODULE Spec2Model ----
(***************************************************************************)
(* The notebook workflow of src/cdk/singleAccount/lib/                     *)
(* sagemaker-notebook-instance.ts: upload, local training, credentials,    *)
(* registration of the latest run, hyperparameter search, registration of  *)
(* the best run, deployment, predictions and deletion of the endpoint.     *)
(* The workflow's cells are the actions; the managed services they call    *)
(* (training jobs, the tracking server and its registry, the secret store, *)
(* the endpoints) are the state, changed by the cells' calls and by the    *)
(* services' own steps.                                                    *)
(***************************************************************************)
EXTENDS Integers, Sequences, FiniteSets, TLC

\* ------------------------------------------------------------ constants
max_jobs == 10
max_parallel_jobs == 3
NumPredictions == 2

\* train_test_split(..., test_size=0.25, random_state=42)
test_size_percent == 25
random_state == 42

\* Bounds of the model.
MaxMetric == 2
MaxDeviations == 1
\* Rows of a dataset, executions of the split cell, and the rows of the
\* dataset the workflow is followed with.
MaxRows == 100
MaxSplits == 2
WorkflowRows == 4

model_name == "california-housing-model"
endpoint_name == "california-housing"
objective_type == "Minimize"

\* TunerConfig with max_jobs handed over as max_parallel_jobs too.
TunerConfigUncapped ==
    [max_jobs |-> max_jobs, max_parallel_jobs |-> max_jobs,
     objective_type |-> objective_type]

\* The parameters the notebook hands to HyperparameterTuner.
TunerConfig ==
    [max_jobs |-> max_jobs, max_parallel_jobs |-> max_parallel_jobs,
     objective_type |-> objective_type]

\* Deployment that replaces an endpoint of the same name.
DeployModeReplace == "replace"

\* mode of mlflow.sagemaker.deploy
DeployMode == "create"

MetricVals == 1..MaxMetric
NoMetric == 0

TerminalStatus == {"Completed", "Failed", "Stopped"}
JobStatus == {"Submitted", "Running"} \cup TerminalStatus

\* The shapes of the secret the secret store may hold: absent, not a JSON
\* object, a JSON object lacking a key, a key whose value is no string, or
\* the pair of strings.
SecretShapes ==
    {"missing", "not_json", "no_username", "no_password",
     "username_not_str", "password_not_str", "ok"}

VARIABLES
    pc,          \* the cell the workflow is at
    wf,          \* "running", "aborted" (a cell raised), "done"
    environ,     \* os.environ: MLFLOW_TRACKING_USERNAME / _PASSWORD
    secret,      \* the shape of the secret in the secret store
    jobs,        \* training jobs, in submission order
    runs,        \* the experiment's runs, in start order (index = run id)
    registered,  \* whether model_name is a registered model
    versions,    \* model versions of model_name (index = version number)
    run,         \* the notebook's variable run (0: unset)
    model_version, \* the notebook's variable model_version (0: unset)
    versionLog,  \* the versions the registrations of this execution returned
    endpoints,   \* deployed endpoints: a set of [name, version]
    predictions, \* prediction requests answered so far
    others,      \* steps other users of the tracking server have taken
    raised,      \* what the try/except of the registration at hand caught
    rows,        \* the number of rows of the dataset (its rows are 1..rows)
    splits       \* the [train, test] the executions of the split cell gave

vars ==
    <<pc, wf, environ, secret, jobs, runs, registered, versions, run,
      model_version, versionLog, endpoints, predictions, others, raised,
      rows, splits>>

\* --------------------------------------------------------------- helpers
Unset == "unset"

RunRec(metric, status, job) ==
    [metric |-> metric, status |-> status, job |-> job, deleted |-> FALSE]

\* source="{}/model".format(run.info.artifact_uri), run_id=run.info.run_uuid
ArtifactUri(r) == <<"artifacts", r>>
ModelSource(r) == <<ArtifactUri(r), "/model">>
\* A version created without run_id: it names no run.
VersionRecNoRun(r) == [source |-> ModelSource(r), run_id |-> 0]

VersionRec(r) == [source |-> ModelSource(r), run_id |-> r]

ActiveRuns == {r \in 1..Len(runs) : ~runs[r].deleted}

JobsOf(kind) == {j \in 1..Len(jobs) : jobs[j].kind = kind}
TunerJobs == JobsOf("tuner")
InProgress(S) == {j \in S : jobs[j].status \notin TerminalStatus}

\* The tuner's jobs that did not end Completed with the metric MaxMetric.
OddTunerJobs ==
    {j \in TunerJobs :
        \/ jobs[j].status \in {"Failed", "Stopped"}
        \/ /\ jobs[j].status = "Completed"
           /\ runs[jobs[j].run].metric # MaxMetric}

\* What the model bounds by MaxDeviations: the tuner's jobs that end
\* otherwise than Completed with the metric MaxMetric, and the steps of
\* other users of the tracking server.
Deviations == Cardinality(OddTunerJobs) + others

\* The tuner's jobs being interchangeable, the model lets those that end
\* otherwise be the first of its jobs to end.
MayEndOdd ==
    /\ Deviations < MaxDeviations
    /\ \A i \in TunerJobs :
          jobs[i].status \in TerminalStatus => i \in OddTunerJobs

Abort == wf' = "aborted"

At(c) == wf = "running" /\ pc = c

\* --------------------------------------------------------------- Init
\* What earlier executions may have left in the account: nothing; a run; a
\* run registered as version 1 of the model; and that version deployed (an
\* execution that ended between deploy and delete).
Leftovers ==
    {[runs |-> <<>>, registered |-> FALSE, versions |-> <<>>,
      endpoints |-> {}]}
    \cup
    {[runs |-> <<RunRec(m, "FINISHED", 0)>>, registered |-> reg,
      versions |-> IF reg THEN <<VersionRec(1)>> ELSE <<>>,
      endpoints |-> IF dep THEN {[name |-> endpoint_name, version |-> 1]}
                           ELSE {}] :
        m \in MetricVals, reg \in BOOLEAN, dep \in BOOLEAN}

\* A fresh kernel: no notebook variable set, no credentials in os.environ.
FreshKernel ==
    /\ pc = "split"
    /\ wf = "running"
    /\ environ = [username |-> Unset, password |-> Unset]
    /\ jobs = <<>>
    /\ run = 0
    /\ model_version = 0
    /\ versionLog = <<>>
    /\ predictions = 0
    /\ others = 0
    /\ raised = "none"
    /\ splits = <<>>

Account(left) ==
    /\ runs = left.runs
    /\ registered = left.registered
    /\ versions = left.versions
    /\ endpoints = left.endpoints

Init ==
    /\ FreshKernel
    /\ rows = WorkflowRows
    /\ secret \in SecretShapes
    /\ \E left \in Leftovers :
          /\ left.endpoints # {} => left.registered
          /\ Account(left)

\* ------------------------------------------------------- dataset split
Ceil(a, b) == (a + b - 1) \div b

\* The shuffle of n rows by a generator seeded with seed: a rearrangement
\* of 1..n that the seed and n determine.
Shuffle(n, seed) ==
    [i \in 1..n |-> (((i - 1) * (n - 1) + seed) % n) + 1]

\* train_test_split of n rows: n_test = ceil(test_size * n) rows of the
\* shuffle go to test, the n - n_test others to train; it raises
\* ValueError when that leaves train empty.
train_test_split(n, percent, seed) ==
    LET n_test == Ceil(n * percent, 100)
        n_train == n - n_test
        perm == Shuffle(n, seed)
    IN  IF n_train <= 0
           THEN [raises |-> TRUE, train |-> <<>>, test |-> <<>>]
           ELSE [raises |-> FALSE,
                 train |-> SubSeq(perm, n_test + 1, n),
                 test |-> SubSeq(perm, 1, n_test)]

\* A split without random_state: the generator's seed differs from one
\* execution (the k-th) to the next.
SplitSeedUnset(k) == k

\* random_state=42 in every execution.
SplitSeed(k) == random_state

\* The cell data = fetch_california_housing(); ... = train_test_split(...)
RunSplit(from, next) ==
    /\ At(from)
    /\ LET s == train_test_split(rows, test_size_percent,
                                 SplitSeed(Len(splits) + 1))
       IN  IF s.raises
              THEN pc' = pc /\ Abort /\ splits' = splits
              ELSE /\ splits' =
                        Append(splits, [train |-> s.train, test |-> s.test])
                   /\ pc' = next /\ wf' = wf
    /\ UNCHANGED <<environ, secret, raised, rows, jobs, runs, registered,
                   versions, run, model_version, versionLog, endpoints,
                   predictions, others>>

Split == RunSplit("split", "upload")

\* The cell executed once more.
SplitAgain == Len(splits) < MaxSplits /\ RunSplit("upload", "upload")

\* ------------------------------------------------------ dataset upload
\* to_csv and sess.upload_data: a storage failure raises.
Upload ==
    /\ At("upload")
    /\ \E ok \in BOOLEAN :
          IF ok THEN pc' = "fit" /\ wf' = wf
                ELSE pc' = pc /\ Abort
    /\ UNCHANGED <<environ, secret, raised, rows, splits, jobs, runs, registered, versions, run,
                   model_version, versionLog, endpoints, predictions, others>>

\* ------------------------------------------------------- training jobs
JobRec(kind) == [kind |-> kind, status |-> "Submitted", run |-> 0]

\* estimator.fit: submits one training job and blocks on it.
LocalFit ==
    /\ At("fit")
    /\ jobs' = Append(jobs, JobRec("local"))
    /\ pc' = "fit_wait"
    /\ UNCHANGED <<wf, environ, secret, raised, rows, splits, runs, registered, versions, run,
                   model_version, versionLog, endpoints, predictions, others>>

\* Jobs of a kind are interchangeable: the model takes them in the order
\* of their submission, so the job that starts (ends) next is the oldest
\* one submitted (running).
Oldest(j, status) ==
    /\ jobs[j].status = status
    /\ \A i \in 1..(j - 1) : jobs[i].status # status

\* The service starts a submitted job: train.py begins and starts its run.
JobStart(j) ==
    /\ Oldest(j, "Submitted")
    /\ runs' = Append(runs, RunRec(NoMetric, "RUNNING", j))
    /\ jobs' = [jobs EXCEPT ![j].status = "Running", ![j].run = Len(runs) + 1]
    /\ UNCHANGED <<pc, wf, environ, secret, raised, rows, splits, registered, versions, run,
                   model_version, versionLog, endpoints, predictions, others>>

\* train.py logs the metric AE-at-50th-percentile to its run and ends
\* normally: the run is finished and the job Completed.
JobComplete(j, m) ==
    /\ Oldest(j, "Running")
    /\ (jobs[j].kind = "tuner" /\ m # MaxMetric) => MayEndOdd
    /\ jobs' = [jobs EXCEPT ![j].status = "Completed"]
    /\ runs' = [runs EXCEPT ![jobs[j].run].metric = m,
                            ![jobs[j].run].status = "FINISHED"]
    /\ UNCHANGED <<pc, wf, environ, secret, raised, rows, splits, registered, versions, run,
                   model_version, versionLog, endpoints, predictions, others>>

\* A running job fails (train.py or the platform raises: its run ends
\* FAILED) or is stopped (the process is killed: its run is left RUNNING),
\* before (m = NoMetric) or after it has logged its metric.
JobEndBad(j, s, m) ==
    /\ Oldest(j, "Running")
    /\ jobs[j].kind = "tuner" => MayEndOdd
    /\ jobs' = [jobs EXCEPT ![j].status = s]
    /\ runs' = [runs EXCEPT
                  ![jobs[j].run].metric = m,
                  ![jobs[j].run].status =
                      IF s = "Failed" THEN "FAILED" ELSE "RUNNING"]
    /\ UNCHANGED <<pc, wf, environ, secret, raised, rows, splits, registered, versions, run,
                   model_version, versionLog, endpoints, predictions, others>>

\* A fit that returns whatever the job's end.
FitProceedsAlways(status) == TRUE

\* estimator.fit returns when the job is Completed and raises otherwise.
FitProceeds(status) == status = "Completed"

FitReturn ==
    /\ At("fit_wait")
    /\ jobs[Len(jobs)].status \in TerminalStatus
    /\ IF FitProceeds(jobs[Len(jobs)].status)
          THEN pc' = "creds" /\ wf' = wf
          ELSE pc' = pc /\ Abort
    /\ UNCHANGED <<environ, secret, raised, rows, splits, jobs, runs, registered, versions, run,
                   model_version, versionLog, endpoints, predictions, others>>

\* --------------------------------------------------------- credentials
\* retrieve_credentials: get_secret_value raises when the secret is
\* missing; json.loads(...)['username'] and [...]['password'] raise when
\* the secret is no JSON object or lacks the key.
RetrieveSucceeds(shape) ==
    shape \in {"username_not_str", "password_not_str", "ok"}

\* The two assignments in the other order: the password first.
EnvironAfterPasswordFirst(shape) ==
    CASE shape = "ok" ->
            [username |-> "secret_username", password |-> "secret_password"]
      [] shape = "username_not_str" ->
            [username |-> Unset, password |-> "secret_password"]
      [] OTHER -> [username |-> Unset, password |-> Unset]

\* os.environ[...] = value raises TypeError unless value is a string.
EnvironAfter(shape) ==
    CASE shape = "ok" ->
            [username |-> "secret_username", password |-> "secret_password"]
      [] shape = "password_not_str" ->
            [username |-> "secret_username", password |-> Unset]
      [] OTHER -> [username |-> Unset, password |-> Unset]

\* The cell: credentials = retrieve_credentials(...); the two assignments
\* to os.environ.
Credentials ==
    /\ At("creds")
    /\ environ' = IF RetrieveSucceeds(secret) THEN EnvironAfter(secret)
                                              ELSE environ
    /\ IF secret = "ok" THEN pc' = "search_latest" /\ wf' = wf
                        ELSE pc' = pc /\ Abort
    /\ UNCHANGED <<secret, raised, rows, splits, jobs, runs, registered, versions, run,
                   model_version, versionLog, endpoints, predictions, others>>

\* ------------------------------------------------------- run selection
\* The query ordered by start_time ASC: the oldest run first.
LatestRunsAscending ==
    {r \in ActiveRuns : \A q \in ActiveRuns : r <= q}

\* search_runs(filter_string="", max_results=1,
\*             order_by=["attribute.start_time DESC"]): the runs it may
\* return first. The empty filter keeps every run that is not deleted.
LatestRuns ==
    {r \in ActiveRuns : \A q \in ActiveRuns : q <= r}

\* order_by=["metrics.`AE-at-50th-percentile` ASC"]: runs that have the
\* metric come first, smallest value first; runs without it come last.
WithMetric == {r \in ActiveRuns : runs[r].metric # NoMetric}

BestRuns ==
    IF WithMetric # {}
       THEN {r \in WithMetric :
                \A q \in WithMetric : runs[r].metric <= runs[q].metric}
       ELSE ActiveRuns

\* A selection that goes on without a run when the result is empty.
SearchNoRaise(found, next) ==
    /\ IF found = {}
          THEN run' = 0 /\ pc' = next /\ wf' = wf
          ELSE \E r \in found : run' = r /\ pc' = next /\ wf' = wf
    /\ UNCHANGED <<environ, secret, raised, rows, splits, jobs, runs, registered, versions,
                   model_version, versionLog, endpoints, predictions, others>>

\* run = client.search_runs(...)[0]: IndexError on an empty result.
Search(found, next) ==
    /\ IF found = {}
          THEN pc' = pc /\ Abort /\ run' = run
          ELSE \E r \in found : run' = r /\ pc' = next /\ wf' = wf
    /\ UNCHANGED <<environ, secret, raised, rows, splits, jobs, runs, registered, versions,
                   model_version, versionLog, endpoints, predictions, others>>

SearchLatest == At("search_latest") /\ Search(LatestRuns, "create_model_1")

SearchBest == At("search_best") /\ Search(BestRuns, "create_model_2")

\* -------------------------------------------------------- registration
\* What create_registered_model raises: nothing, the name already exists,
\* or another error of the tracking server.
CreateOutcomes ==
    (IF registered THEN {"already_exists"} ELSE {"created"}) \cup {"error"}

\* The call without the try/except around it.
CreateRaisesUncaught(outcome) == outcome # "created"

\* try: client.create_registered_model(model_name) / except: print(...)
\* The bare except swallows whatever is raised.
CreateRaises(outcome) == FALSE

CreateRegisteredModel(from, next) ==
    /\ At(from)
    /\ \E o \in CreateOutcomes :
          /\ registered' = (registered \/ o = "created")
          /\ raised' = IF o = "created" THEN "none" ELSE o
          /\ IF CreateRaises(o) THEN pc' = pc /\ Abort
                                ELSE pc' = next /\ wf' = wf
    /\ UNCHANGED <<environ, secret, rows, splits, jobs, runs, versions, run,
                   model_version, versionLog, endpoints, predictions, others>>

\* The version number the registry gives a new version of the name.
NextVersion == Len(versions) + 1

\* client.create_model_version(name, source, run_id): raises when the name
\* is no registered model.
CreateModelVersion(from, next) ==
    /\ At(from)
    /\ IF registered
          THEN /\ versions' = Append(versions, VersionRec(run))
               /\ model_version' =
                     [name |-> model_name, version |-> NextVersion,
                      source |-> ModelSource(run), run_id |-> run]
               /\ versionLog' = Append(versionLog, NextVersion)
               /\ raised' = "none"
               /\ pc' = next /\ wf' = wf
          ELSE /\ pc' = pc /\ Abort
               /\ UNCHANGED <<versions, model_version, versionLog, raised>>
    /\ UNCHANGED <<environ, secret, rows, splits, jobs, runs, registered,
                   run, endpoints, predictions, others>>

\* Local predictions: load_model(model_version.source) and predict.
LocalPredict ==
    /\ At("local_predict")
    /\ pc' = "tuner_fit"
    /\ UNCHANGED <<wf, environ, secret, raised, rows, splits, jobs, runs, registered, versions, run,
                   model_version, versionLog, endpoints, predictions, others>>

\* ------------------------------------------------- hyperparameter search
\* tuner.fit: creates the tuning job and blocks until it has ended.
TunerFit ==
    /\ At("tuner_fit")
    /\ pc' = "tuner_wait"
    /\ UNCHANGED <<wf, environ, secret, raised, rows, splits, jobs, runs, registered, versions, run,
                   model_version, versionLog, endpoints, predictions, others>>

\* The tuning job submits one more training job: fewer than max_jobs so
\* far, fewer than max_parallel_jobs of them in progress.
TunerSubmit ==
    /\ At("tuner_wait")
    /\ Cardinality(TunerJobs) < TunerConfig.max_jobs
    /\ Cardinality(InProgress(TunerJobs)) < TunerConfig.max_parallel_jobs
    /\ jobs' = Append(jobs, JobRec("tuner"))
    /\ UNCHANGED <<pc, wf, environ, secret, raised, rows, splits, runs, registered, versions, run,
                   model_version, versionLog, endpoints, predictions, others>>

\* A fit that does not wait for the tuning job.
TunerEndedNoWait == TRUE

\* The tuning job has ended: every training job submitted and ended.
TunerEnded ==
    /\ Cardinality(TunerJobs) = TunerConfig.max_jobs
    /\ InProgress(TunerJobs) = {}

TunerReturn ==
    /\ At("tuner_wait")
    /\ TunerEnded
    /\ pc' = "build_image"
    /\ UNCHANGED <<wf, environ, secret, raised, rows, splits, jobs, runs, registered, versions, run,
                   model_version, versionLog, endpoints, predictions, others>>

\* !mlflow sagemaker build-and-push-container, image_uri
BuildImage ==
    /\ At("build_image")
    /\ pc' = "search_best"
    /\ UNCHANGED <<wf, environ, secret, raised, rows, splits, jobs, runs, registered, versions, run,
                   model_version, versionLog, endpoints, predictions, others>>

\* ------------------------------------------------------------ endpoint
EndpointsNamed(n) == {e \in endpoints : e.name = n}

\* A deploy that returns while the endpoint is still being created.
DeployAsynchronous == FALSE

\* synchronous is not handed to deploy and is True by default: deploy
\* returns when the endpoint is in service.
DeploySynchronous == TRUE

\* mlflow.sagemaker.deploy(mode, app_name, model_uri): in mode "create" it
\* raises when an endpoint of that name exists; in mode "replace" it puts
\* the new model in the place of the old one.
DeployResult(mode, n, v) ==
    IF EndpointsNamed(n) = {}
       THEN [raises |-> FALSE,
             endpoints |->
                 IF DeploySynchronous
                    THEN endpoints \cup {[name |-> n, version |-> v]}
                    ELSE endpoints]
       ELSE IF mode = "create"
               THEN [raises |-> TRUE, endpoints |-> endpoints]
               ELSE [raises |-> FALSE,
                     endpoints |-> (endpoints \ EndpointsNamed(n))
                                      \cup {[name |-> n, version |-> v]}]

Deploy ==
    /\ At("deploy")
    /\ LET d == DeployResult(DeployMode, endpoint_name, model_version.version)
       IN  /\ endpoints' = d.endpoints
           /\ IF d.raises THEN pc' = pc /\ Abort
                          ELSE pc' = "predict" /\ wf' = wf
    /\ UNCHANGED <<environ, secret, raised, rows, splits, jobs, runs, registered, versions, run,
                   model_version, versionLog, predictions, others>>

\* runtime.invoke_endpoint(EndpointName=n): an error when no endpoint has
\* the name; otherwise the model's answer, or an error of the model.
InvokeEndpoint(n) ==
    IF EndpointsNamed(n) = {} THEN {"error"} ELSE {"ok", "error"}

\* A loop whose failure deletes the endpoint before it stops the workflow.
EndpointsAfterRaiseCleanedUp == endpoints \ EndpointsNamed(endpoint_name)

\* The loop is in no try/finally: a request that raises leaves the
\* endpoints as they are.
EndpointsAfterRaise == endpoints

\* One round of the loop for _ in range(0,2).
Predict ==
    /\ At("predict")
    /\ \E res \in InvokeEndpoint(endpoint_name) :
          IF res = "ok"
             THEN /\ predictions' = predictions + 1
                  /\ pc' = IF predictions + 1 = NumPredictions
                              THEN "delete" ELSE pc
                  /\ wf' = wf
                  /\ endpoints' = endpoints
             ELSE /\ pc' = pc /\ Abort /\ predictions' = predictions
                  /\ endpoints' = EndpointsAfterRaise
    /\ UNCHANGED <<environ, secret, raised, rows, splits, jobs, runs,
                   registered, versions, run, model_version, versionLog,
                   others>>

\* A delete handed the model's name instead of the endpoint's.
DeleteEndpointOfModel(n) == endpoints \ EndpointsNamed(model_name)

\* mlflow.sagemaker.delete(app_name): the endpoints left; it raises when no
\* endpoint has the name.
DeleteEndpoint(n) == endpoints \ EndpointsNamed(n)

Delete ==
    /\ At("delete")
    /\ IF EndpointsNamed(endpoint_name) = {}
          THEN pc' = pc /\ Abort /\ endpoints' = endpoints
          ELSE /\ endpoints' = DeleteEndpoint(endpoint_name)
               /\ pc' = "done" /\ wf' = "done"
    /\ UNCHANGED <<environ, secret, raised, rows, splits, jobs, runs, registered, versions, run,
                   model_version, versionLog, predictions, others>>

\* ------------------------------------- other users of the tracking server
\* The workflow reads the experiment's runs in its two selections only: a
\* step of another user has the same effect on what a selection reads
\* whether it is taken right before the selection or earlier.
OtherWindow == wf = "running" /\ pc \in {"search_latest", "search_best"}

\* Another writer logs a run to the experiment.
OtherStartRun(m) ==
    /\ OtherWindow
    /\ Deviations < MaxDeviations
    /\ runs' = Append(runs, RunRec(m, "FINISHED", 0))
    /\ others' = others + 1
    /\ UNCHANGED <<pc, wf, environ, secret, raised, rows, splits, jobs, registered, versions, run,
                   model_version, versionLog, endpoints, predictions>>

\* Another user deletes a run of the experiment.
OtherDeleteRun(r) ==
    /\ OtherWindow
    /\ Deviations < MaxDeviations
    /\ ~runs[r].deleted
    /\ runs' = [runs EXCEPT ![r].deleted = TRUE]
    /\ others' = others + 1
    /\ UNCHANGED <<pc, wf, environ, secret, raised, rows, splits, jobs, registered, versions, run,
                   model_version, versionLog, endpoints, predictions>>

\* ---------------------------------------------------------------- Next
JobStep ==
    \E j \in 1..Len(jobs) :
        \/ JobStart(j)
        \/ \E m \in MetricVals : JobComplete(j, m)
        \/ \E s \in {"Failed", "Stopped"}, m \in MetricVals \cup {NoMetric} :
              JobEndBad(j, s, m)

OtherStep ==
    \/ \E m \in MetricVals : OtherStartRun(m)
    \/ \E r \in 1..Len(runs) : OtherDeleteRun(r)

Next ==
    \/ Split
    \/ Upload
    \/ LocalFit
    \/ JobStep
    \/ FitReturn
    \/ Credentials
    \/ SearchLatest
    \/ CreateRegisteredModel("create_model_1", "create_version_1")
    \/ CreateModelVersion("create_version_1", "local_predict")
    \/ LocalPredict
    \/ TunerFit
    \/ TunerSubmit
    \/ TunerReturn
    \/ BuildImage
    \/ SearchBest
    \/ CreateRegisteredModel("create_model_2", "create_version_2")
    \/ CreateModelVersion("create_version_2", "deploy")
    \/ Deploy
    \/ Predict
    \/ Delete
    \/ OtherStep

Spec == Init /\ [][Next]_vars

\* The services keep working: a job that can start or end does so, and the
\* tuning job submits a job when it may. The workflow's blocking call
\* returns when it can.
FairSpec ==
    /\ Spec
    /\ WF_vars(JobStep)
    /\ WF_vars(TunerSubmit)
    /\ WF_vars(TunerReturn)

\* The split cell alone, on datasets of 0 to MaxRows rows, executed up to
\* MaxSplits times.
SplitInit ==
    /\ FreshKernel
    /\ rows \in 0..MaxRows
    /\ secret = "ok"
    /\ Account([runs |-> <<>>, registered |-> FALSE, versions |-> <<>>,
                endpoints |-> {}])

SplitNext == Split \/ SplitAgain

SplitSpec == SplitInit /\ [][SplitNext]_vars

\* ------------------------------------------------------------- stages
Stages ==
    <<"split", "upload", "fit", "fit_wait", "creds", "search_latest", "create_model_1",
      "create_version_1", "local_predict", "tuner_fit", "tuner_wait",
      "build_image", "search_best", "create_model_2", "create_version_2",
      "deploy", "predict", "delete", "done">>

StageNo(c) == CHOOSE i \in 1..Len(Stages) : Stages[i] = c

\* The workflow has left cell c behind.
Past(c) == StageNo(pc) > StageNo(c)

\* ============================================================== claims

\* C1: registration is idempotent at the level of the model name. Once the
\* name is registered, neither create_registered_model nor
\* create_model_version stops the workflow, and the versions the
\* registrations return increase strictly and are greater than every
\* version the name had before.
C1_VersionsIncrease ==
    /\ \A i, j \in 1..Len(versionLog) :
          i < j => versionLog[i] < versionLog[j]
    /\ \A i \in 1..Len(versionLog) :
          versionLog[i] > Len(versions) - Len(versionLog)

C1_RegistrationIdempotent ==
    /\ []C1_VersionsIncrease
    /\ [][(/\ wf = "running"
           /\ registered
           /\ pc \in {"create_model_1", "create_version_1",
                      "create_model_2", "create_version_2"})
          => wf' = "running"]_vars

\* Two registrations in one execution, under a name an earlier execution
\* had registered with one version.
C1_Witness == versionLog = <<2, 3>>

\* C2: the hyperparameter search never has more than max_parallel_jobs (3)
\* training jobs in progress, nor more than max_jobs (10) submitted.
C2_TunerCaps ==
    /\ Cardinality(InProgress(TunerJobs)) <= max_parallel_jobs
    /\ Cardinality(TunerJobs) <= max_jobs

C2_Witness ==
    /\ Cardinality(InProgress(TunerJobs)) = max_parallel_jobs
    /\ Cardinality(TunerJobs) = max_jobs

\* C4: deploy followed by delete is a round trip on the endpoints: when the
\* workflow has deployed the endpoint and deleted it, no endpoint has the
\* name and a prediction request to the name fails.
C4_DeployDeleteRoundTrip ==
    pc = "done" =>
        /\ EndpointsNamed(endpoint_name) = {}
        /\ InvokeEndpoint(endpoint_name) = {"error"}

C4_Witness == pc = "done" /\ predictions = NumPredictions /\ endpoints = {}

\* C5: deployment is in mode "create". At most one endpoint has the name
\* california-housing, and a deploy that finds one fails and leaves the
\* endpoints as they are.
C5_CreateMode ==
    /\ [](Cardinality(EndpointsNamed(endpoint_name)) <= 1)
    /\ [][(At("deploy") /\ EndpointsNamed(endpoint_name) # {})
          => (endpoints' = endpoints /\ wf' = "aborted")]_vars

C5_Witness ==
    /\ pc = "deploy" /\ wf = "aborted"
    /\ endpoints = {[name |-> endpoint_name, version |-> 1]}
    /\ model_version.version = 3

\* C3: the best-run selection returns the run whose metric is the
\* smallest among the completed runs of the experiment.
Finished ==
    {r \in ActiveRuns :
        runs[r].status = "FINISHED" /\ runs[r].metric # NoMetric}

C3_BestIsSmallestCompleted ==
    (pc = "create_model_2" /\ Finished # {}) =>
        \A q \in Finished : runs[run].metric <= runs[q].metric
           /\ \E f \in Finished : runs[f].metric = runs[run].metric

\* C6: a selection that finds no run stops the workflow, and then the
\* registration stage creates neither the model name nor a version.
C6_NoRunIsFatal ==
    /\ [][(/\ wf = "running"
           /\ pc \in {"search_latest", "search_best"}
           /\ ActiveRuns = {}
           /\ others' = others)
          => (/\ wf' = "aborted" /\ pc' = pc
              /\ UNCHANGED <<registered, versions, versionLog>>)]_vars
    /\ [][wf = "aborted"
          => UNCHANGED <<pc, wf, registered, versions, versionLog>>]_vars

C6_Witness ==
    /\ wf = "aborted" /\ pc = "search_latest"
    /\ ActiveRuns = {} /\ ~registered /\ versions = <<>>

\* C7: a training job goes Submitted, Running, then Completed, Failed or
\* Stopped. The workflow gets past estimator.fit only when the job is
\* Completed; when it is Failed or Stopped the workflow stops there, and
\* the job is not submitted again.
JobTransitions ==
    {<<"Submitted", "Running">>}
        \cup {<<"Running", t>> : t \in TerminalStatus}

C7_Lifecycle ==
    \A j \in 1..Len(jobs) :
        jobs'[j].status # jobs[j].status
            => <<jobs[j].status, jobs'[j].status>> \in JobTransitions

C7_OnlyCompletedProceeds ==
    /\ [](Past("fit_wait") =>
            /\ JobsOf("local") # {}
            /\ \A j \in JobsOf("local") : jobs[j].status = "Completed")
    /\ [](\A j \in JobsOf("local") :
            jobs[j].status \in {"Failed", "Stopped"} => pc = "fit_wait")
    /\ [](Cardinality(JobsOf("local")) <= 1)
    /\ [][C7_Lifecycle]_vars
    /\ [][(/\ At("fit_wait")
           /\ \E j \in JobsOf("local") :
                 jobs[j].status \in {"Failed", "Stopped"})
          => wf' = "aborted"]_vars

C7_Witness ==
    /\ wf = "aborted" /\ pc = "fit_wait"
    /\ \E j \in JobsOf("local") : jobs[j].status = "Stopped"

\* C8: in the search a failed training job does not stop the search (all
\* max_jobs jobs are submitted and end), and the run of a failed job is
\* never the one the best-run selection returns ahead of every completed
\* run.
C8_FailedJobNotConsidered ==
    /\ Past("tuner_wait") =>
          /\ Cardinality(TunerJobs) = max_jobs
          /\ InProgress(TunerJobs) = {}
    /\ pc = "create_model_2" =>
          ~(/\ runs[run].job # 0
            /\ jobs[runs[run].job].status = "Failed"
            /\ \A q \in Finished : runs[run].metric < runs[q].metric)

\* C9: the search terminates. tuner.fit returns only when max_jobs jobs
\* have been submitted and every one of them has ended, and under fair
\* scheduling of the service it does return.
C9_TunerTerminates ==
    /\ [](Past("tuner_wait") =>
            /\ Cardinality(TunerJobs) = max_jobs
            /\ \A j \in TunerJobs : jobs[j].status \in TerminalStatus)
    /\ ((pc = "tuner_wait") ~> (pc = "build_image"))

C9_Witness ==
    /\ pc = "build_image"
    /\ Cardinality(TunerJobs) = max_jobs
    /\ \E j \in TunerJobs : jobs[j].status = "Stopped"

\* C10 as stated: credential retrieval is all or nothing. A secret that
\* is missing or lacks a key stops the workflow with neither variable set;
\* when retrieve_credentials succeeds both variables are set to the pair.
CredsRan == Past("creds") \/ (pc = "creds" /\ wf = "aborted")

NoCredentials == [username |-> Unset, password |-> Unset]
SecretPair ==
    [username |-> "secret_username", password |-> "secret_password"]

C10_AllOrNothing ==
    /\ (environ.username = Unset) <=> (environ.password = Unset)
    /\ CredsRan =>
          /\ ~RetrieveSucceeds(secret) =>
                (wf = "aborted" /\ pc = "creds" /\ environ = NoCredentials)
          /\ RetrieveSucceeds(secret) => environ = SecretPair

\* C10 as amended: a secret that is missing, no JSON object or lacks a key
\* stops the workflow with neither variable set. When retrieve_credentials
\* returns, both variables are set to the pair if both values are strings;
\* a username that is no string stops the workflow with neither set, and a
\* password that is no string stops it with MLFLOW_TRACKING_USERNAME set
\* and MLFLOW_TRACKING_PASSWORD not.
C10_Credentials ==
    /\ ~CredsRan => environ = NoCredentials
    /\ CredsRan =>
          /\ secret = "ok" => (Past("creds") /\ environ = SecretPair)
          /\ secret # "ok" => (wf = "aborted" /\ pc = "creds")
          /\ secret = "password_not_str" =>
                environ = [username |-> "secret_username", password |-> Unset]
          /\ secret \notin {"ok", "password_not_str"} =>
                environ = NoCredentials

C10_Witness ==
    /\ CredsRan /\ secret = "password_not_str"
    /\ environ.username # Unset /\ environ.password = Unset

\* C11: in a registration the only error recast as success is "already
\* exists" of create_registered_model: after it the registration goes on,
\* and after any other error of create_registered_model the registration
\* stops the workflow.
RegistrationCells ==
    {"create_model_1", "create_version_1", "create_model_2",
     "create_version_2"}

C11_OnlyAlreadyExistsRecast ==
    /\ [][(wf = "running" /\ pc \in RegistrationCells
              /\ raised = "already_exists")
          => wf' = "running"]_vars
    /\ [][(wf = "running" /\ pc \in RegistrationCells /\ raised = "error")
          => wf' = "aborted"]_vars

\* C12: with test_size=0.25 and random_state=42 the train and test parts
\* of a split have no row in common and no row twice, together are the
\* rows of the dataset, are the same in every execution, and test has a
\* quarter of the rows, rounded up to a whole row; of 100 rows 75 are in
\* train and 25 in test.
Range(f) == {f[i] : i \in DOMAIN f}

C12_TrainTestSplit ==
    /\ \A k \in 1..Len(splits) :
          LET train == splits[k].train
              test == splits[k].test
          IN  /\ Range(train) \cap Range(test) = {}
              /\ Range(train) \cup Range(test) = 1..rows
              /\ Len(train) + Len(test) = rows
              /\ 4 * Len(test) \in rows..(rows + 3)
              /\ rows = 100 => (Len(train) = 75 /\ Len(test) = 25)
    /\ \A k, l \in 1..Len(splits) : splits[k] = splits[l]

C12_Witness ==
    /\ rows = 100 /\ Len(splits) = MaxSplits
    /\ Len(splits[1].train) = 75 /\ Len(splits[1].test) = 25

\* C13: the cells run one after the other, each when the one before it
\* has returned: the workflow only moves from a cell to the next one, with
\* no training job of an earlier cell still in progress. At deploy the
\* model version handed to it exists in the registry; predictions are
\* requested only between the return of deploy and delete, from the
\* endpoint of that version.
C13_StagesInSequence ==
    /\ [][pc' # pc => (wf = "running" /\ StageNo(pc') = StageNo(pc) + 1)]_vars
    /\ [](Past("fit_wait") => InProgress(JobsOf("local")) = {})
    /\ [](Past("tuner_wait") =>
            (Cardinality(TunerJobs) = max_jobs /\ InProgress(TunerJobs) = {}))
    /\ [](Past("create_version_2") =>
            /\ Len(versionLog) = 2
            /\ model_version.version = versionLog[2]
            /\ model_version.version \in 1..Len(versions)
            /\ versions[model_version.version].run_id = model_version.run_id)
    /\ [](pc = "predict" =>
            [name |-> endpoint_name, version |-> model_version.version]
                \in endpoints)
    /\ [][predictions' # predictions => pc = "predict"]_vars
    /\ [](~Past("deploy") => predictions = 0)
    /\ [](Past("predict") => predictions = NumPredictions)

C13_Witness ==
    /\ wf = "done" /\ Len(splits) = 1 /\ Len(versionLog) = 2
    /\ Cardinality(TunerJobs) = max_jobs /\ predictions = NumPredictions

\* C14: a registration adds exactly one version to the model, and that
\* version points at the run the selection before it returned: its source
\* is the run's artifact URI followed by "/model" and its run id the run's.
\* The notebook's run is set by the selections only, to a run the query
\* puts first.
C14_VersionStep ==
    /\ pc \in {"create_version_1", "create_version_2"}
    /\ run' = run
    /\ versions' =
          Append(versions,
                 [source |-> <<<<"artifacts", run>>, "/model">>,
                  run_id |-> run])
    /\ model_version'.version = Len(versions')
    /\ model_version'.run_id = run
    /\ model_version'.source = versions'[Len(versions')].source

C14_VersionPointsAtSelectedRun ==
    /\ [][versions' # versions => C14_VersionStep]_vars
    /\ [][(pc \in {"create_version_1", "create_version_2"} /\ pc' # pc)
          => versions' # versions]_vars
    /\ [][run' # run =>
            \/ pc = "search_latest" /\ run' \in LatestRuns
            \/ pc = "search_best" /\ run' \in BestRuns]_vars

C14_Witness ==
    /\ pc = "deploy" /\ Len(versionLog) = 2
    /\ versions[versionLog[2]].run_id = run
    /\ versions[versionLog[1]].run_id # run
    /\ versions[versionLog[2]].source = <<<<"artifacts", run>>, "/model">>

\* C15: nothing cleans up after a failure. When the workflow stops
\* between the return of deploy and delete (a prediction request fails),
\* the endpoint it deployed is there and stays; an endpoint of the name
\* goes away only by the delete cell. An execution that finds the name
\* taken before its deploy does not get past deploy.
Taken == EndpointsNamed(endpoint_name) # {}

C15_NoAutomaticCleanup ==
    /\ []((wf = "aborted" /\ Past("deploy")) =>
            /\ pc = "predict"
            /\ [name |-> endpoint_name, version |-> model_version.version]
                  \in endpoints)
    /\ [][(Taken /\ ~Taken') => (At("delete") /\ wf' = "done")]_vars
    /\ [][(Taken /\ ~Past("deploy")) => (Taken' /\ ~Past("deploy")')]_vars
    /\ [][(At("deploy") /\ Taken) => (wf' = "aborted" /\ Taken')]_vars

C15_Witness ==
    /\ wf = "aborted" /\ pc = "predict" /\ predictions = 1
    /\ endpoints =
          {[name |-> endpoint_name, version |-> model_version.version]}

\* C16 as stated: the latest-run selection after the local training job
\* returns the run of that job when no other run was started after it, and
\* the run another writer started when one was.
LocalRun == jobs[CHOOSE j \in JobsOf("local") : TRUE].run

StartedAfter(r) == {q \in 1..Len(runs) : q > r}

C16_LatestIsJobsRun ==
    pc = "create_model_1" =>
        /\ StartedAfter(LocalRun) = {} => run = LocalRun
        /\ StartedAfter(LocalRun) # {} =>
              (run \in StartedAfter(LocalRun) /\ runs[run].job = 0)

\* C16 as amended: the selection returns the run started last among the
\* runs that are not deleted. That is the job's run when it is not deleted
\* and no run that is not deleted was started after it; it is another
\* writer's run when such a run was started after the job's; and it is a
\* run older than the job's when the job's run was deleted and no later
\* one is left.
C16_LatestAmongNotDeleted ==
    pc = "create_model_1" =>
        LET later == StartedAfter(LocalRun) \cap ActiveRuns
        IN  /\ run \in ActiveRuns
            /\ \A q \in ActiveRuns : q <= run
            /\ (later = {} /\ LocalRun \in ActiveRuns) => run = LocalRun
            /\ later # {} => (run \in later /\ runs[run].job = 0)
            /\ (later = {} /\ LocalRun \notin ActiveRuns) => run < LocalRun

C16_Witness ==
    /\ pc = "create_model_1" /\ others = 1
    /\ run = LocalRun + 1 /\ runs[run].job = 0 /\ ~runs[LocalRun].deleted

====
